---- MODULE Spec2Model ----
(***************************************************************************)
(* Electrical Jobsite Buddy (src/app.py): the persisted Database Root, its *)
(* migration (migrate_db, migrate_list_to_items), the persistence gateway  *)
(* (load_db, save_db) and the Jobsite page's handlers, as a state machine. *)
(*                                                                         *)
(* Python values are tagged records.  A dict is a record that carries      *)
(* every key the code reads, a missing key holding Absent.  A str the code *)
(* trims or searches is a sequence of one-character strings; a str the     *)
(* code only stores or compares (a photo path, APP_VERSION) is a TLA+      *)
(* string.                                                                 *)
(***************************************************************************)
EXTENDS Integers, Sequences, FiniteSets, TLC

VARIABLES
    file,      \* DB_FILE: NoFile, Garbage (unparseable), or the parsed document
    db,        \* the script run's in-memory root (NoDb before the first run)
    raised,    \* whether the last run ended in an uncaught Python exception
    pc,        \* how the last script run ended: "done" (ran to its last line),
               \* "rerun" (st.rerun()), "stop" (st.stop()), "error" (exception);
               \* in SpecMigrate, the position: "start", "loaded", "again"
    doc,       \* SpecMigrate: what storage held before load_db
    db1,       \* SpecMigrate: the root the first migrate_db returned
    session_state,  \* st.session_state and the widgets' kept values
    ev,        \* the widget event the last script run handled
    last_hits, \* SpecSearch: what site_search_filter returned
    view       \* SpecSearch: the show_items the page hands to each table

vars == <<file, db, raised, pc, doc, db1, session_state, ev, last_hits, view>>

---------------------------------------------------------------------------
(* Bounds of the model *)

\* longest item list in a generated document
MaxLen == 2
\* longest photo list in a generated document
MaxPhotos == 2

---------------------------------------------------------------------------
(* Python values *)

Absent == [k |-> "absent"]
Null == [k |-> "null"]
Num == [k |-> "num"]
Str(s) == [k |-> "str", v |-> s]
List(l) == [k |-> "list", v |-> l]
PyInt(n) == [k |-> "int", v |-> n]
Iso(t) == [k |-> "iso", v |-> t]
Text(s) == [k |-> "text", v |-> s]
Dict(f) == [k |-> "dict", v |-> f]
\* {}: a mapping with no key
EmptyMap == [n \in {} |-> Null]

NoFile == [k |-> "nofile"]
Garbage == [k |-> "garbage"]
NoDb == [k |-> "nodb"]
NoSession == [active_site |-> <<>>, search_q |-> <<>>]
NoEvent ==
    [op |-> "none", key |-> "", id |-> 0, text |-> <<>>, priority |-> "",
     link |-> <<>>, idx |-> 0, path |-> "", halt |-> ""]

\* site_search_filter's None: no filter
NoHits == [k |-> "none"]
\* no table drawn yet
NoView == [k |-> "none"]

APP_VERSION == Text("v0.7.0 (Planned Pack)")

SCHEMA_VERSION == 2

Whitespace == {" "}

\* str.strip()
RECURSIVE lstrip(_)
lstrip(s) ==
    IF s # <<>> /\ Head(s) \in Whitespace THEN lstrip(Tail(s)) ELSE s

RECURSIVE rstrip(_)
rstrip(s) ==
    IF s # <<>> /\ s[Len(s)] \in Whitespace
    THEN rstrip(SubSeq(s, 1, Len(s) - 1))
    ELSE s

strip(s) == rstrip(lstrip(s))

\* now_iso() at clock reading t
now_iso(t) == Iso(t)

new_item(text, priority, link, id, t) ==
    [k |-> "item",
     id |-> id,
     text |-> strip(text),
     done |-> FALSE,
     priority |-> priority,
     link |-> strip(link),
     created_at |-> now_iso(t)]

default_db(t) ==
    [k |-> "dict",
     version |-> PyInt(SCHEMA_VERSION),
     created_at |-> now_iso(t),
     app_version |-> APP_VERSION,
     job_sites |-> Dict(EmptyMap)]

\* dict.setdefault(key, default) on the value held under the key
setdefault(val, default) == IF val = Absent THEN default ELSE val

\* dict.get(key, default)
get(val, default) == IF val = Absent THEN default ELSE val

\* the ids of the item-objects of a document
ItemIds(d) ==
    IF d.k # "dict" \/ d.job_sites.k # "dict" THEN {}
    ELSE UNION {
           UNION {
             {site[key].v[i].id :
                 i \in {j \in 1..Len(site[key].v) : site[key].v[j].k = "item"}} :
             key \in {c \in {"what_to_do", "materials_need", "materials_have",
                             "to_buy"} : site[c].k = "list"}} :
           site \in {d.job_sites.v[n] :
                       n \in {m \in DOMAIN d.job_sites.v :
                                 d.job_sites.v[m].k = "dict"}}}

\* uuid.uuid4().hex[:10] gives an id no item carries: the ids handed out in
\* a run over document d are uuid4(d) + 1, uuid4(d) + 2, ...
uuid4(d) ==
    IF ItemIds(d) = {} THEN 0
    ELSE CHOOSE m \in ItemIds(d) : \A i \in ItemIds(d) : i <= m

---------------------------------------------------------------------------
(* migrate_list_to_items *)

IsStrItem(x) == x.k = "str" /\ strip(x.v) # <<>>

\* StringsToItems with `break` for `continue`: the loop ends at the first
\* entry that is blank or no string
RECURSIVE StringsToItems_stop_at_skipped(_, _, _)
StringsToItems_stop_at_skipped(l, t, u) ==
    IF l = <<>> THEN <<>>
    ELSE IF IsStrItem(Head(l))
         THEN <<new_item(strip(Head(l).v), "Medium", <<>>, u + 1, t)>>
              \o StringsToItems_stop_at_skipped(Tail(l), t, u + 1)
         ELSE <<>>

\* StringsToItems without the `and x.strip()` of line 241: a blank string
\* becomes an item too
RECURSIVE StringsToItems_keep_blank(_, _, _)
StringsToItems_keep_blank(l, t, u) ==
    IF l = <<>> THEN <<>>
    ELSE IF Head(l).k = "str"
         THEN <<new_item(strip(Head(l).v), "Medium", <<>>, u + 1, t)>>
              \o StringsToItems_keep_blank(Tail(l), t, u + 1)
         ELSE StringsToItems_keep_blank(Tail(l), t, u)

\* the for loop of lines 240-242: one new_item per non-blank str, ids u+1, ...
RECURSIVE StringsToItems(_, _, _)
StringsToItems(l, t, u) ==
    IF l = <<>> THEN <<>>
    ELSE IF IsStrItem(Head(l))
         THEN <<new_item(strip(Head(l).v), "Medium", <<>>, u + 1, t)>>
              \o StringsToItems(Tail(l), t, u + 1)
         ELSE StringsToItems(Tail(l), t, u)

\* migrate_list_to_items without the "already migrated" return of line 238
migrate_list_to_items_no_fast_path(maybe_list, t, u) ==
    IF maybe_list.k # "list" THEN List(<<>>)
    ELSE List(StringsToItems(maybe_list.v, t, u))

\* migrate_list_to_items whose "already migrated" branch stamps each
\* item-object with the current time
migrate_list_to_items_restamp(maybe_list, t, u) ==
    IF maybe_list.k # "list" THEN List(<<>>)
    ELSE IF maybe_list.v = <<>> THEN List(<<>>)
    ELSE IF maybe_list.v[1].k = "item"
    THEN List([i \in 1..Len(maybe_list.v) |->
                 IF maybe_list.v[i].k = "item"
                 THEN [maybe_list.v[i] EXCEPT !.created_at = now_iso(t)]
                 ELSE maybe_list.v[i]])
    ELSE List(StringsToItems(maybe_list.v, t, u))

migrate_list_to_items(maybe_list, t, u) ==
    IF maybe_list.k # "list" THEN List(<<>>)
    ELSE IF maybe_list.v = <<>> THEN List(<<>>)
    ELSE IF maybe_list.v[1].k = "item" THEN maybe_list
    ELSE List(StringsToItems(maybe_list.v, t, u))

\* how many uuid4() calls migrate_list_to_items made
IdsUsed(maybe_list) ==
    IF maybe_list.k = "list" /\ maybe_list.v # <<>> /\ maybe_list.v[1].k # "item"
    THEN Len(SelectSeq(maybe_list.v, IsStrItem))
    ELSE 0

---------------------------------------------------------------------------
(* migrate_db *)

SectionKeys == {"what_to_do", "materials", "to_buy", "notes", "general"}

ListKeys == {"what_to_do", "materials_need", "materials_have", "to_buy"}

EmptySections ==
    [k |-> "dict",
     what_to_do |-> List(<<>>),
     materials |-> List(<<>>),
     to_buy |-> List(<<>>),
     notes |-> List(<<>>),
     general |-> List(<<>>)]

\* section_photos without the setdefault loop of lines 281-282
ensure_section_photos_no_backfill(sp) ==
    IF sp = Absent \/ sp.k # "dict" THEN EmptySections ELSE sp

\* lines 272-282: a missing or non-dict section_photos is replaced, a dict gets
\* its missing keys
ensure_section_photos(sp) ==
    IF sp = Absent \/ sp.k # "dict" THEN EmptySections
    ELSE [k |-> "dict",
          what_to_do |-> setdefault(sp.what_to_do, List(<<>>)),
          materials |-> setdefault(sp.materials, List(<<>>)),
          to_buy |-> setdefault(sp.to_buy, List(<<>>)),
          notes |-> setdefault(sp.notes, List(<<>>)),
          general |-> setdefault(sp.general, List(<<>>))]

InSeq(p, l) == \E i \in 1..Len(l) : l[i] = p

\* MirrorPhotos without the `p not in general` test of line 288
RECURSIVE MirrorPhotos_no_dedupe(_, _)
MirrorPhotos_no_dedupe(photos, general) ==
    IF photos = <<>> THEN general
    ELSE MirrorPhotos_no_dedupe(Tail(photos), Append(general, Head(photos)))

\* lines 287-289 on list values: append each legacy path general lacks
RECURSIVE MirrorPhotos(_, _)
MirrorPhotos(photos, general) ==
    IF photos = <<>> THEN general
    ELSE MirrorPhotos(Tail(photos),
                      IF InSeq(Head(photos), general) THEN general
                      ELSE Append(general, Head(photos)))

\* bool(site.get("photos")): a non-empty list or a nonzero number
Truthy(val) == (val.k = "list" /\ val.v # <<>>) \/ val.k = "num"

\* lines 285-289 raise TypeError: iterating a number (for p in 5), or testing
\* membership in a bucket that is null (p not in None)
PhotosRaise(photos, general) ==
    Truthy(photos) /\ (photos.k # "list" \/ general.k # "list")

\* lines 261-263
site_defaults(site, t) ==
    [site EXCEPT !.created_at = setdefault(@, now_iso(t)),
                 !.notes = setdefault(@, Str(<<>>)),
                 !.photos = setdefault(@, List(<<>>))]

\* lines 266-269 on the four lists as site.get(key, []) gave them; ids are
\* taken from u + 1 on
site_lists(site, l1, l2, l3, l4, t, u) ==
    [site EXCEPT
       !.what_to_do = migrate_list_to_items(l1, t, u),
       !.materials_need = migrate_list_to_items(l2, t, u + IdsUsed(l1)),
       !.materials_have =
           migrate_list_to_items(l3, t, u + IdsUsed(l1) + IdsUsed(l2)),
       !.to_buy =
           migrate_list_to_items(l4, t,
                                 u + IdsUsed(l1) + IdsUsed(l2) + IdsUsed(l3))]

\* lines 285-289 on the buckets sp
mirror_photos(photos, sp) ==
    IF Truthy(photos) /\ ~PhotosRaise(photos, sp.general)
    THEN [sp EXCEPT !.general = List(MirrorPhotos(photos.v, sp.general.v))]
    ELSE sp

\* lines 272-289
site_photos(site, sp, u) ==
    [site |-> [site EXCEPT !.section_photos = mirror_photos(site.photos, sp)],
     raised |-> PhotosRaise(site.photos, sp.general),
     u |-> u]

\* the loop body of lines 258-289 for one site
migrate_site(site, t, u) ==
    IF site.k # "dict" THEN [site |-> site, raised |-> FALSE, u |-> u]
    ELSE site_photos(
             site_lists(site_defaults(site, t),
                        get(site.what_to_do, List(<<>>)),
                        get(site.materials_need, List(<<>>)),
                        get(site.materials_have, List(<<>>)),
                        get(site.to_buy, List(<<>>)),
                        t, u),
             ensure_section_photos(site.section_photos),
             u + IdsUsed(get(site.what_to_do, List(<<>>)))
               + IdsUsed(get(site.materials_need, List(<<>>)))
               + IdsUsed(get(site.materials_have, List(<<>>)))
               + IdsUsed(get(site.to_buy, List(<<>>))))

\* the for loop of line 257 over the sites named in names; an exception ends it
RECURSIVE MigrateSites(_, _, _, _)

\* the loop after site n came out as r
SitesAfter(sites, names, n, r, t) ==
    IF r.raised THEN [sites |-> sites, raised |-> TRUE, u |-> r.u]
    ELSE MigrateSites([sites EXCEPT ![n] = r.site], names \ {n}, t, r.u)

SiteStep(sites, names, n, t, u) ==
    SitesAfter(sites, names, n, migrate_site(sites[n], t, u), t)

MigrateSites(sites, names, t, u) ==
    IF names = {} THEN [sites |-> sites, raised |-> FALSE, u |-> u]
    ELSE SiteStep(sites, names, CHOOSE x \in names : TRUE, t, u)

\* line 254
stamp_version(version) == setdefault(version, PyInt(SCHEMA_VERSION))

\* lines 250-251
job_sites(d) ==
    IF d.job_sites = Absent \/ d.job_sites.k # "dict" THEN Dict(EmptyMap)
    ELSE d.job_sites

\* lines 254-255 and 291-292 around the loop's outcome r
migrated_root(d, r) ==
    [db |-> [k |-> "dict",
             version |-> stamp_version(d.version),
             created_at |-> d.created_at,
             app_version |-> APP_VERSION,
             job_sites |-> Dict(r.sites)],
     raised |-> r.raised,
     saved |-> ~r.raised,
     u |-> r.u]

\* migrate_db: the root returned (db), whether it raised, whether it reached
\* save_db (line 291), and the last id handed out
migrate_db(d, t, u) ==
    IF d.k # "dict"
    THEN [db |-> default_db(t), raised |-> FALSE, saved |-> FALSE, u |-> u]
    ELSE migrated_root(d, MigrateSites(job_sites(d).v, DOMAIN job_sites(d).v, t, u))

\* save_db writes the whole root; json.load of what json.dump wrote is the
\* same document
save_db(d) == d

\* lines 199-200 when migrate_db came out as r: an exception leaves load_db,
\* else the file is what migrate_db saved
loaded(f, r) ==
    IF r.raised THEN [db |-> NoDb, file |-> f, raised |-> TRUE, u |-> r.u]
    ELSE [db |-> r.db, file |-> IF r.saved THEN save_db(r.db) ELSE f,
          raised |-> FALSE, u |-> r.u]

\* load_db whose except branch returns the default without save_db
load_db_no_save_on_corrupt(f, t, u) ==
    IF f = NoFile
    THEN [db |-> default_db(t), file |-> save_db(default_db(t)),
          raised |-> FALSE, u |-> u]
    ELSE IF f = Garbage
    THEN [db |-> default_db(t), file |-> f, raised |-> FALSE, u |-> u]
    ELSE loaded(f, migrate_db(f, t, u))

\* load_db: the root returned, the storage afterwards, whether it raised
load_db(f, t, u) ==
    IF f = NoFile \/ f = Garbage
    THEN [db |-> default_db(t), file |-> save_db(default_db(t)),
          raised |-> FALSE, u |-> u]
    ELSE loaded(f, migrate_db(f, t, u))

---------------------------------------------------------------------------
(* Documents storage may hold before a run *)

\* clock readings: an earlier and a later one
Times == {0, 1}

SeqsUpTo(S, n) == UNION {[1..m -> S] : m \in 0..n}

SampleStrings == {<<>>, <<" ">>, <<"a">>, <<" ", "b", " ">>}

ItemA ==
    [k |-> "item", id |-> 101, text |-> <<"a">>, done |-> FALSE,
     priority |-> "High", link |-> <<"l">>, created_at |-> Iso(0)]

ItemB ==
    [k |-> "item", id |-> 102, text |-> <<"b">>, done |-> TRUE,
     priority |-> "Low", link |-> <<>>, created_at |-> Iso(0)]

\* what a stored list may hold: strings, item-objects, and a number
Elements == {Str(s) : s \in SampleStrings} \cup {ItemA, ItemB, Num}

ItemListVals == {Absent, Null} \cup {List(l) : l \in SeqsUpTo(Elements, MaxLen)}

Paths == {"a.png", "b.png"}

PhotoLists == {List(l) : l \in SeqsUpTo(Paths, MaxPhotos)}

PhotoVals == {Absent, Null, Num} \cup PhotoLists

BucketVals == {Absent, Null} \cup PhotoLists

SectionVals ==
    {Absent, Null} \cup
    {[k |-> "dict", what_to_do |-> o, materials |-> o, to_buy |-> o,
      notes |-> o, general |-> g] :
        o \in {Absent, List(<<"c.png">>)}, g \in BucketVals}

LegacyList == List(<<Str(<<"a">>), Str(<<"b">>)>>)

OtherListVals == {Absent, LegacyList, List(<<ItemB>>)}

Site(created, notes, photos, l1, l2, l3, l4, sp) ==
    [k |-> "dict", created_at |-> created, notes |-> notes, photos |-> photos,
     what_to_do |-> l1, materials_need |-> l2, materials_have |-> l3,
     to_buy |-> l4, section_photos |-> sp]

\* sites that vary the item lists
ListSites ==
    {Site(c, n, p, l1, o, o, o, Absent) :
        c \in {Absent, Iso(0)}, n \in {Absent, Str(<<"n">>)},
        p \in {Absent, List(<<"a.png">>)},
        l1 \in ItemListVals, o \in OtherListVals}

\* sites that vary the photo fields
PhotoSites ==
    {Site(Iso(0), n, p, o, Absent, Absent, o, sp) :
        n \in {Absent, Str(<<"n">>)}, p \in PhotoVals,
        o \in {Absent, LegacyList}, sp \in SectionVals}

SiteVals == {Null} \cup ListSites \cup PhotoSites

SiteNames == {<<"s">>, <<"t">>}

OneSite(s) == [n \in {<<"s">>} |-> s]

TwoSites(s, s2) == [n \in SiteNames |-> IF n = <<"s">> THEN s ELSE s2]

JobSitesVals ==
    {Absent, Null, Dict(EmptyMap)}
    \cup {Dict(OneSite(s)) : s \in SiteVals}
    \cup {Dict(TwoSites(s, s2)) :
            s \in {Null, Site(Absent, Absent, Num, Absent, Absent, Absent,
                              Absent, Absent),
                   Site(Iso(0), Str(<<"n">>), List(<<"a.png">>), LegacyList,
                        Absent, Absent, List(<<ItemA>>), Absent)},
            s2 \in {Null, Site(Absent, Absent, Absent, LegacyList, Absent,
                               Absent, LegacyList, Absent)}}

Root(version, created, app, js) ==
    [k |-> "dict", version |-> version, created_at |-> created,
     app_version |-> app, job_sites |-> js]

OLD_APP_VERSION == Text("v0.6.0")

Documents ==
    {Null}
    \cup {Root(Absent, Absent, Absent, js) : js \in JobSitesVals}
    \cup {Root(PyInt(1), Iso(0), OLD_APP_VERSION, js) : js \in JobSitesVals}
    \cup {Root(PyInt(SCHEMA_VERSION), Iso(0), APP_VERSION, js) : js \in JobSitesVals}

Storage == {NoFile, Garbage} \cup Documents

---------------------------------------------------------------------------
(* SpecMigrate: load_db on any stored document, then migrate_db on its own   *)
(* output                                                                    *)

InitMigrate ==
    /\ file \in Storage
    /\ db = NoDb
    /\ raised = FALSE
    /\ pc = "start"
    /\ doc = NoFile
    /\ db1 = NoDb
    /\ session_state = NoSession
    /\ ev = NoEvent
    /\ last_hits = NoHits
    /\ view = NoView

\* line 615: db = load_db()
LoadDb ==
    /\ pc = "start"
    /\ \E t \in Times : \E r \in {load_db(file, t, uuid4(file))} :
            /\ db' = r.db
            /\ file' = r.file
            /\ raised' = r.raised
    /\ doc' = file
    /\ pc' = "loaded"
    /\ UNCHANGED <<db1, session_state, ev, last_hits, view>>

\* migrate_db on the root the first call returned
MigrateAgain ==
    /\ pc = "loaded"
    /\ ~raised
    /\ \E t \in Times : \E r \in {migrate_db(db, t, uuid4(db))} :
            /\ db' = r.db
            /\ file' = IF r.saved THEN save_db(r.db) ELSE file
            /\ raised' = r.raised
    /\ db1' = db
    /\ pc' = "again"
    /\ UNCHANGED <<doc, session_state, ev, last_hits, view>>

NextMigrate == LoadDb \/ MigrateAgain

SpecMigrate == InitMigrate /\ [][NextMigrate]_vars

---------------------------------------------------------------------------
(* Helpers of the Jobsite page *)

\* re.sub(r"\s+", " ", s): each run of whitespace becomes one space
RECURSIVE collapse(_)
collapse(s) ==
    IF s = <<>> THEN <<>>
    ELSE IF Head(s) \in Whitespace
         THEN <<" ">> \o collapse(lstrip(s))
         ELSE <<Head(s)>> \o collapse(Tail(s))

clean_name(s) == collapse(strip(s))

NewSite(t) ==
    [k |-> "dict",
     created_at |-> now_iso(t),
     notes |-> Str(<<>>),
     photos |-> List(<<>>),
     what_to_do |-> List(<<>>),
     materials_need |-> List(<<>>),
     materials_have |-> List(<<>>),
     to_buy |-> List(<<>>),
     section_photos |-> EmptySections]

\* d["job_sites"][name] = value
PutSite(d, name, value) ==
    [d EXCEPT !.job_sites =
        Dict([n \in DOMAIN d.job_sites.v \cup {name} |->
                 IF n = name THEN value ELSE d.job_sites.v[n]])]

\* ensure_site without the `if site_name not in db["job_sites"]` of line 206
ensure_site_overwrite(d, site_name, t) == PutSite(d, site_name, NewSite(t))

ensure_site(d, site_name, t) ==
    IF site_name \notin DOMAIN d.job_sites.v
    THEN PutSite(d, site_name, NewSite(t))
    ELSE d

\* prio_rank.get(pr, 1)
prio_rank(pr) ==
    IF pr = "High" THEN 0 ELSE IF pr = "Low" THEN 2 ELSE 1

\* key_fn(x) < key_fn(y) on the tuples (done, prio_rank, created_at)
KeyLess(x, y) ==
    \/ ~x.done /\ y.done
    \/ /\ x.done = y.done
       /\ \/ prio_rank(x.priority) < prio_rank(y.priority)
          \/ /\ prio_rank(x.priority) = prio_rank(y.priority)
             /\ x.created_at.v < y.created_at.v

\* x goes behind every element whose key is not greater (list.sort is stable)
RECURSIVE InsertByKey(_, _)
InsertByKey(l, x) ==
    IF l = <<>> THEN <<x>>
    ELSE IF KeyLess(x, Head(l)) THEN <<x>> \o l
    ELSE <<Head(l)>> \o InsertByKey(Tail(l), x)

RECURSIVE SortInto(_, _)
SortInto(sorted, rest) ==
    IF rest = <<>> THEN sorted
    ELSE SortInto(InsertByKey(sorted, Head(rest)), Tail(rest))

\* items.sort(key=key_fn): the list after the in-place sort
sort_items(items) == SortInto(<<>>, items)

LowerChar(c) == IF c = "A" THEN "a" ELSE IF c = "B" THEN "b" ELSE c

\* str.lower()
lower(s) == [i \in 1..Len(s) |-> LowerChar(s[i])]

\* needle in hay
Contains(hay, needle) ==
    \E i \in 0..(Len(hay) - Len(needle)) :
        SubSeq(hay, i + 1, i + Len(needle)) = needle

\* match_item that looks at the text only (no `or q in link` of line 570)
match_item_text_only(it, q) == Contains(lower(it.text), q)

match_item(it, q) == Contains(lower(it.text), q) \/ Contains(lower(it.link), q)

Filter(l, q) == SelectSeq(l, LAMBDA it : match_item(it, q))

site_search_filter(site, query) ==
    LET q == lower(strip(query))
    IN IF q = <<>> THEN NoHits
       ELSE [k |-> "hits",
             what_to_do |-> Filter(site.what_to_do.v, q),
             materials_need |-> Filter(site.materials_need.v, q),
             materials_have |-> Filter(site.materials_have.v, q),
             to_buy |-> Filter(site.to_buy.v, q),
             notes_hit |-> Contains(lower(site.notes.v), q)]

\* list.remove(x): the list without its first element equal to x
RECURSIVE RemoveFirst(_, _)
RemoveFirst(l, x) ==
    IF l = <<>> THEN <<>>
    ELSE IF Head(l) = x THEN Tail(l)
    ELSE <<Head(l)>> \o RemoveFirst(Tail(l), x)

\* list.pop(i), i counted from 1
PopAt(l, i) == SubSeq(l, 1, i - 1) \o SubSeq(l, i + 1, Len(l))

HasId(l, id) == \E i \in 1..Len(l) : l[i].id = id

WithId(l, id) == l[CHOOSE i \in 1..Len(l) : l[i].id = id]

\* the checkbox of the item whose key carries id came back flipped
FlipDone(l, id) ==
    [i \in 1..Len(l) |-> IF l[i].id = id THEN [l[i] EXCEPT !.done = ~@] ELSE l[i]]

---------------------------------------------------------------------------
(* The widgets of the Jobsite page's tabs, in script order.  rs is the body *)
(* so far: the active site's record, how the run was halted ("none" while   *)
(* it is running), whether the event e found its widget, and the last id   *)
(* handed out.                                                             *)

Halted(rs) == rs.halt # "none"

\* add_item_ui, lines 484-509.  After items.append the run ends at line 503
\* (session_state of an instantiated widget: StreamlitAPIException) or at
\* line 507 (st.rerun()), as e.halt says.
add_item_ui(rs, key, allow_link, e, t) ==
    IF Halted(rs) \/ e.op # "add" \/ e.key # key THEN rs
    ELSE IF strip(e.text) # <<>>
    THEN [site |-> [rs.site EXCEPT ![key] =
                       List(Append(@.v,
                            new_item(strip(e.text), e.priority,
                                     IF allow_link THEN e.link ELSE <<>>,
                                     rs.u + 1, t)))],
          halt |-> e.halt, used |-> TRUE, u |-> rs.u + 1]
    ELSE [rs EXCEPT !.used = TRUE]

\* lines 519-555: the rows drawn from `shown`, the sorted show_items.  The
\* rows are the stored item objects; `shown` is the stored list itself unless
\* a search is on, and then it is a copy (line 571) that line 553 removes from
table_rows(rs, key, filtered, stored, shown, e) ==
    IF e.op = "delete" /\ e.key = key /\ HasId(shown, e.id)
    THEN [rs EXCEPT
            !.site[key] = List(IF filtered THEN stored
                               ELSE RemoveFirst(shown, WithId(shown, e.id))),
            !.halt = "rerun", !.used = TRUE]
    ELSE IF e.op = "toggle" /\ e.key = key /\ HasId(shown, e.id)
    THEN [rs EXCEPT
            !.site[key] = List(FlipDone(IF filtered THEN stored ELSE shown, e.id)),
            !.used = TRUE]
    ELSE [rs EXCEPT !.site[key] = List(IF filtered THEN stored ELSE shown)]

\* items_table_ui, lines 512-555: `if not items: return`, then the sort
\* (line 517) and the rows
items_table_ui(rs, key, filtered, items, e) ==
    IF Halted(rs) \/ items = <<>> THEN rs
    ELSE table_rows(rs, key, filtered, rs.site[key].v, sort_items(items), e)

\* lines 682, 693, 700, 712: show_items is the stored list, or the filtered
\* copy when a search is on (`if not hits`)
show_items(rs, key, hits) ==
    IF hits.k = "hits" THEN hits[key] ELSE rs.site[key].v

\* lines 682-683: the table of the list's show_items
shown_table(rs, key, hits, e) ==
    items_table_ui(rs, key, hits.k = "hits", show_items(rs, key, hits), e)

\* add_item_ui and items_table_ui of one list, as lines 680-683 pair them
list_ui(rs, key, allow_link, hits, e, t) ==
    shown_table(add_item_ui(rs, key, allow_link, e, t), key, hits, e)

\* upload_photos_to_section, lines 445-472
upload_photos_to_section(rs, section_key, e) ==
    IF Halted(rs) \/ e.key # section_key THEN rs
    ELSE LET bucket == rs.site.section_photos[section_key].v
         IN IF e.op = "upload"
            THEN [rs EXCEPT
                    !.site.section_photos[section_key] = List(Append(bucket, e.path)),
                    !.halt = "rerun", !.used = TRUE]
            ELSE IF e.op = "rm_photo" /\ e.idx \in 1..Len(bucket)
            THEN [rs EXCEPT
                    !.site.section_photos[section_key] = List(PopAt(bucket, e.idx)),
                    !.halt = "rerun", !.used = TRUE]
            ELSE rs

\* line 724: site["notes"] = st.text_area(...)
notes_area(rs, e) ==
    IF Halted(rs) \/ e.op # "notes" THEN rs
    ELSE [rs EXCEPT !.site.notes = Str(e.text), !.used = TRUE]

\* lines 677-730
tab_what_to_do(rs, hits, e, t) ==
    upload_photos_to_section(list_ui(rs, "what_to_do", FALSE, hits, e, t),
                             "what_to_do", e)

tab_materials(rs, hits, e, t) ==
    upload_photos_to_section(
        list_ui(list_ui(rs, "materials_need", FALSE, hits, e, t),
                "materials_have", FALSE, hits, e, t),
        "materials", e)

tab_to_buy(rs, hits, e, t) ==
    upload_photos_to_section(list_ui(rs, "to_buy", TRUE, hits, e, t), "to_buy", e)

tab_notes(rs, e) == upload_photos_to_section(notes_area(rs, e), "notes", e)

tabs(rs, hits, e, t) ==
    tab_notes(
        upload_photos_to_section(
            tab_to_buy(tab_materials(tab_what_to_do(rs, hits, e, t), hits, e, t),
                       hits, e, t),
            "general", e),
        e)

---------------------------------------------------------------------------
(* One script run: lines 614-907 with the widget event e at clock reading t *)

CharRank(c) ==
    CASE c = " " -> 0 [] c = "A" -> 1 [] c = "B" -> 2 [] c = "a" -> 3
      [] c = "b" -> 4 [] c = "s" -> 5 [] c = "t" -> 6 [] c = "u" -> 7
      [] OTHER -> 8

\* a < b as Python compares str
RECURSIVE StrLess(_, _)
StrLess(a, b) ==
    IF b = <<>> THEN FALSE
    ELSE IF a = <<>> THEN TRUE
    ELSE IF Head(a) = Head(b) THEN StrLess(Tail(a), Tail(b))
    ELSE CharRank(Head(a)) < CharRank(Head(b))

\* sorted(names)[0]
FirstName(names) == CHOOSE n \in names : \A m \in names \ {n} : StrLess(n, m)

Outcome(f, d, d1, sess, how, used) ==
    [file |-> f, db |-> d, db1 |-> d1, session |-> sess, pc |-> how,
     used |-> used]

\* line 732, save_db(db), when the tabs let the run get there
jobsite_end(f, d, d1, sess, halt, used) ==
    IF halt = "none" THEN Outcome(save_db(d), d, d1, sess, "done", used)
    ELSE Outcome(f, d, d1, sess, halt, used)

\* lines 668-732 for the active site
jobsite_tabs(f, d, d1, sess, active, rs) ==
    jobsite_end(f, PutSite(d, active, rs.site), d1,
                [sess EXCEPT !.active_site = active], rs.halt, rs.used)

\* lines 672-673
search_hits(site, search_q) ==
    IF strip(search_q) # <<>> THEN site_search_filter(site, search_q)
    ELSE NoHits

\* lines 666-732
jobsite_site(f, d, d1, sess, e, t, u, used, active) ==
    jobsite_tabs(f, d, d1, sess, active,
                 tabs([site |-> d.job_sites.v[active], halt |-> "none",
                       used |-> used, u |-> u],
                      search_hits(d.job_sites.v[active], sess.search_q), e, t))

\* line 666, the selectbox: the site picked, else the one kept, else the
\* first of sorted(names)
active_site(sites, sess, e) ==
    IF e.op = "select" /\ e.text \in sites THEN e.text
    ELSE IF sess.active_site \in sites THEN sess.active_site
    ELSE FirstName(sites)

\* the Jobsite page below line 656, db being d and storage f
jobsite_body(f, d, d1, sess, e, t, u, used) ==
    IF DOMAIN d.job_sites.v = {}
    THEN Outcome(f, d, d1, [sess EXCEPT !.search_q = <<>>], "stop", used)
    ELSE jobsite_site(f, d, d1, sess, e, t, u,
                      used \/ (e.op = "select" /\ e.text \in DOMAIN d.job_sites.v),
                      active_site(DOMAIN d.job_sites.v, sess, e))

\* lines 641-650: the site is made, saved (line 647) and the run restarts
create_site(d, sess, name, t) ==
    Outcome(save_db(ensure_site(d, name, t)), ensure_site(d, name, t), d,
            [sess EXCEPT !.active_site = name], "rerun", TRUE)

\* lines 632-732
jobsite_page(f, d, sess, e, t, u) ==
    IF e.op = "create" /\ clean_name(e.text) # <<>>
    THEN create_site(d, sess, clean_name(e.text), t)
    ELSE jobsite_body(IF e.op = "save_now" THEN save_db(d) ELSE f,
                      d, d, sess, e, t, u,
                      e.op \in {"create", "save_now", "search", "none"})

\* the Photos, Manuals and Settings pages, lines 761-907: nothing but the
\* Settings page's reset button touches db; the Jobsite page's widgets are
\* not drawn, so their kept values are dropped
other_page(f, d, sess, e, t) ==
    IF e.op = "reset"
    THEN Outcome(save_db(default_db(t)), default_db(t), d,
                 [sess EXCEPT !.search_q = <<>>], "rerun", TRUE)
    ELSE Outcome(f, d, d, [sess EXCEPT !.search_q = <<>>], "done",
                 e.op = "other_page")

\* lines 617-907: the page drawn is the one the event's widget is on
page(L, sess, e, t) ==
    IF L.raised THEN Outcome(L.file, NoDb, NoDb, sess, "error", TRUE)
    ELSE IF e.op \in {"reset", "other_page"}
    THEN other_page(L.file, L.db, sess, e, t)
    ELSE jobsite_page(L.file, L.db, sess, e, t, L.u)

\* the text the search box holds in this run
search_box(sess, e) ==
    [sess EXCEPT !.search_q = IF e.op = "search" THEN e.text ELSE @]

\* lines 614-907
script(f, sess, e, t, u) == page(load_db(f, t, u), search_box(sess, e), e, t)

---------------------------------------------------------------------------
(* Spec: the user's session, one action per widget event *)

LegacySite ==
    Site(Absent, Str(<<"n">>), List(<<"a.png">>),
         List(<<Str(<<"a">>), Str(<<" ", "a">>)>>),
         Absent, Absent, Absent, Absent)

\* a document of the earlier generation of the app: flat string lists, the
\* flat photos list, no section_photos
LegacyDocument ==
    Root(PyInt(1), Iso(0), OLD_APP_VERSION, Dict(OneSite(LegacySite)))

\* what the user types or picks
NameInputs == {<<" ">>, <<" ", "t", " ", " ", "u">>}
TextInputs == {<<" ">>, <<" ", "b">>}
PriorityInputs == {"High"}
QueryInputs == {<<" ">>, <<"A">>}
NoteInputs == {<<"n">>}
UploadPaths == {"u.png"}
IdInputs == {1, 2, 3}
AddKeys == {"what_to_do", "to_buy"}
UploadKeys == {"what_to_do", "general"}

Init ==
    /\ file \in {NoFile, Garbage, LegacyDocument}
    /\ db = NoDb
    /\ raised = FALSE
    /\ pc = "idle"
    /\ doc = NoFile
    /\ db1 = NoDb
    /\ session_state = NoSession
    /\ ev = NoEvent
    /\ last_hits = NoHits
    /\ view = NoView

\* the script runs with event e and the state becomes what it left.  The
\* session's first run has no event, and a run in which no widget answers to
\* e is not a run of e
Run(e) ==
    \E t \in Times : \E x \in {script(file, session_state, e, t, uuid4(file))} :
        /\ pc = "idle" => e.op = "none"
        /\ x.used
        /\ file' = x.file
        /\ db' = x.db
        /\ session_state' = x.session
        /\ pc' = x.pc
        /\ raised' = (x.pc = "error")
        /\ UNCHANGED <<doc, db1, last_hits, view>>

\* a rerun with no widget changed (a browser refresh)
Refresh ==
    /\ ev' = NoEvent
    /\ Run(ev')

\* a run of the Photos, Manuals or Settings page with no button pressed
OtherPage ==
    /\ ev' = [NoEvent EXCEPT !.op = "other_page"]
    /\ Run(ev')

CreateSite ==
    \E n \in NameInputs :
        /\ ev' = [NoEvent EXCEPT !.op = "create", !.text = n]
        /\ Run(ev')

SaveNow ==
    /\ ev' = [NoEvent EXCEPT !.op = "save_now"]
    /\ Run(ev')

SelectSite ==
    \E n \in SiteNames \cup {clean_name(i) : i \in NameInputs} :
        /\ ev' = [NoEvent EXCEPT !.op = "select", !.text = n]
        /\ Run(ev')

Search ==
    \E q \in QueryInputs :
        /\ ev' = [NoEvent EXCEPT !.op = "search", !.text = q]
        /\ Run(ev')

AddItem ==
    \E key \in AddKeys, txt \in TextInputs, pr \in PriorityInputs,
          h \in {"error", "rerun"} :
        /\ ev' = [NoEvent EXCEPT !.op = "add", !.key = key, !.text = txt,
                                 !.priority = pr, !.halt = h,
                                 !.link = IF key = "to_buy" THEN <<"l", " ">>
                                          ELSE <<>>]
        /\ Run(ev')

ToggleDone ==
    \E key \in AddKeys, id \in IdInputs :
        /\ ev' = [NoEvent EXCEPT !.op = "toggle", !.key = key, !.id = id]
        /\ Run(ev')

DeleteItem ==
    \E key \in AddKeys, id \in IdInputs :
        /\ ev' = [NoEvent EXCEPT !.op = "delete", !.key = key, !.id = id]
        /\ Run(ev')

EditNotes ==
    \E n \in NoteInputs :
        /\ ev' = [NoEvent EXCEPT !.op = "notes", !.text = n]
        /\ Run(ev')

UploadPhoto ==
    \E key \in UploadKeys, p \in UploadPaths :
        /\ ev' = [NoEvent EXCEPT !.op = "upload", !.key = key, !.path = p]
        /\ Run(ev')

RemovePhoto ==
    \E key \in UploadKeys, i \in 1..MaxPhotos :
        /\ ev' = [NoEvent EXCEPT !.op = "rm_photo", !.key = key, !.idx = i]
        /\ Run(ev')

\* the Settings page's "Reset ALL app data" button
ResetAll ==
    /\ ev' = [NoEvent EXCEPT !.op = "reset"]
    /\ Run(ev')

Next ==
    \/ Refresh
    \/ OtherPage
    \/ CreateSite
    \/ SaveNow
    \/ SelectSite
    \/ Search
    \/ AddItem
    \/ ToggleDone
    \/ DeleteItem
    \/ EditNotes
    \/ UploadPhoto
    \/ RemovePhoto
    \/ ResetAll

Spec == Init /\ [][Next]_vars

---------------------------------------------------------------------------
(* Properties of the migration engine and the persistence gateway *)

\* the names of the sites of a root whose job_sites is a mapping
SitesOf(d) ==
    IF d.k = "dict" /\ d.job_sites.k = "dict" THEN DOMAIN d.job_sites.v ELSE {}

\* the names of the sites that are mappings themselves
RecordsOf(d) == {n \in SitesOf(d) : d.job_sites.v[n].k = "dict"}

\* load_db returned, and storage held a parsed document with a mapping root
Migrated == pc = "loaded" /\ ~raised /\ doc.k = "dict"

Elems(l) == {l[i] : i \in 1..Len(l)}

TextsOf(l) == [i \in 1..Len(l) |-> l[i].text]

TrimmedOf(l) == [i \in 1..Len(l) |-> strip(l[i].v)]

\* every non-blank string and every item-object of an input list made of
\* strings and item-objects is represented in the output list
Represented(in, out) ==
    (in.k = "list" /\ \A x \in Elems(in.v) : x.k \in {"str", "item"}) =>
        /\ out.k = "list"
        /\ \A x \in Elems(in.v) :
             /\ x.k = "item" => x \in Elems(out.v)
             /\ IsStrItem(x) =>
                  \E y \in Elems(out.v) :
                      y.k = "item" /\ y.text = strip(x.v)

NotesAndPhotosKept(in, out) ==
    /\ in.notes # Absent => out.notes = in.notes
    /\ in.photos # Absent => out.photos = in.photos
    /\ in.section_photos.k = "dict" =>
         \A key \in SectionKeys :
            in.section_photos[key].k = "list" =>
               /\ out.section_photos[key].k = "list"
               /\ Len(out.section_photos[key].v) >= Len(in.section_photos[key].v)
               /\ SubSeq(out.section_photos[key].v, 1,
                         Len(in.section_photos[key].v))
                    = in.section_photos[key].v

\* C2 as stated: for every parseable, mapping-rooted document migrate_db loses
\* no user data: every non-blank string and every item-object of each of a
\* site's four lists is represented in the output list, whatever the list's
\* composition, and notes and photo references are kept.
C2_NoDataLossAnyComposition ==
    Migrated =>
        \A n \in RecordsOf(doc) :
            /\ \A key \in ListKeys :
                 Represented(doc.job_sites.v[n][key], db.job_sites.v[n][key])
            /\ NotesAndPhotosKept(doc.job_sites.v[n], db.job_sites.v[n])

\* what migrate_list_to_items keeps of a list
ListKept(in, out) ==
    in.k = "list" =>
        /\ out.k = "list"
        /\ IF in.v # <<>> /\ in.v[1].k = "item"
           THEN out = in
           ELSE TextsOf(out.v) = TrimmedOf(SelectSeq(in.v, IsStrItem))

\* C2 amended: for every parseable, mapping-rooted document, migrate_db either
\* raises and leaves storage as it was, or returns a root in which every site
\* that is a mapping keeps its notes and photo references, a list whose first
\* element is an item-object is kept whole, and any other list is represented
\* by one item per non-blank string, in order, with the trimmed string as text
\* (item-objects after a first element that is not one are dropped).
C2_NoDataLossByShape ==
    (pc = "loaded" /\ doc.k = "dict") =>
        IF raised THEN file = doc
        ELSE \A n \in RecordsOf(doc) :
            /\ \A key \in ListKeys :
                 ListKept(doc.job_sites.v[n][key], db.job_sites.v[n][key])
            /\ NotesAndPhotosKept(doc.job_sites.v[n], db.job_sites.v[n])

\* a list that starts with a string and holds an item-object was migrated:
\* the string became an item, the item-object is gone
C2_Witness ==
    /\ Migrated
    /\ \E n \in RecordsOf(doc) :
         LET in == doc.job_sites.v[n].what_to_do
             out == db.job_sites.v[n].what_to_do
         IN /\ in.k = "list" /\ Len(in.v) = 2
            /\ in.v[1] = Str(<<" ", "b", " ">>) /\ in.v[2] = ItemA
            /\ Len(out.v) = 1 /\ out.v[1].text = <<"b">>
            /\ doc.job_sites.v[n].notes = Str(<<"n">>)

AllItems(val) == val.k = "list" /\ \A x \in Elems(val.v) : x.k = "item"

HasSectionKeys(site) ==
    /\ site.section_photos.k = "dict"
    /\ \A key \in SectionKeys : site.section_photos[key] # Absent

\* C3 as stated: after migrate_db on any mapping-rooted document every Site
\* Record has all five section_photos keys and each of its four item lists is
\* a list of item-objects only.
C3_CurrentShapeAnyDocument ==
    Migrated =>
        \A n \in RecordsOf(db) :
            /\ HasSectionKeys(db.job_sites.v[n])
            /\ \A key \in ListKeys : AllItems(db.job_sites.v[n][key])

\* C3 amended: after migrate_db returns on a mapping-rooted document, every
\* site that is a mapping has all five section_photos keys and each of its
\* four item lists is a list; its elements are all item-objects unless the
\* stored list began with an item-object, in which case it is the stored
\* list, unvalidated.
C3_CurrentShapeUnlessFastPath ==
    Migrated =>
        \A n \in RecordsOf(db) :
            /\ HasSectionKeys(db.job_sites.v[n])
            /\ \A key \in ListKeys :
                 LET in == doc.job_sites.v[n][key]
                     out == db.job_sites.v[n][key]
                 IN /\ out.k = "list"
                    /\ \/ AllItems(out)
                       \/ /\ in.k = "list" /\ in.v # <<>>
                          /\ in.v[1].k = "item" /\ out = in

\* a site without section_photos whose list starts with an item-object and
\* goes on with a string was migrated
C3_Witness ==
    /\ Migrated
    /\ \E n \in RecordsOf(db) :
         /\ doc.job_sites.v[n].section_photos = Absent
         /\ HasSectionKeys(db.job_sites.v[n])
         /\ db.job_sites.v[n].what_to_do = List(<<ItemA, Str(<<"a">>)>>)
         /\ AllItems(db.job_sites.v[n].to_buy)
         /\ db.job_sites.v[n].to_buy.v # <<>>

\* C4: after load_db the root's version is the current schema version and its
\* app_version the current APP_VERSION, whatever storage held.
C4_VersionStamped ==
    (pc = "loaded" /\ ~raised) =>
        /\ db.version = PyInt(SCHEMA_VERSION)
        /\ db.app_version = APP_VERSION

\* C5: migrate_db never raises, whatever the shape of the parsed document.
C5_MigrateNeverRaises == pc = "loaded" => ~raised

\* C6: when load_db returns, storage holds exactly the root it returned, on
\* every path.
C6_StorageHoldsReturnedRoot == (pc = "loaded" /\ ~raised) => file = db

\* equality of two roots but for version and app_version
StructEq(a, b) == a.created_at = b.created_at /\ a.job_sites = b.job_sites

\* C7: migrate_db on the root migrate_db returned gives a structurally equal
\* root (version and app_version aside): no item, photo reference, note or
\* timestamp is added, removed, reordered or rewritten.
C7_MigrateIdempotent == pc = "again" => (~raised /\ StructEq(db, db1))

\* the first run made items of a legacy list and mirrored legacy photos, and
\* the second run has happened
C7_Witness ==
    /\ pc = "again"
    /\ doc.k = "dict"
    /\ \E n \in RecordsOf(doc) :
         /\ doc.job_sites.v[n].to_buy = LegacyList
         /\ doc.job_sites.v[n].created_at = Absent
         /\ doc.job_sites.v[n].photos = List(<<"a.png">>)
         /\ Len(db1.job_sites.v[n].to_buy.v) = 2
         /\ AllItems(db1.job_sites.v[n].to_buy)
         /\ db1.job_sites.v[n].section_photos.general = List(<<"a.png">>)

\* C8: with storage absent or unparseable, load_db does not raise, returns a
\* root with job_sites = {} and overwrites storage with that fresh default.
C8_FreshDefaultOnAbsentOrCorrupt ==
    (pc = "loaded" /\ doc \in {NoFile, Garbage}) =>
        /\ ~raised
        /\ db.k = "dict"
        /\ db.job_sites = Dict(EmptyMap)
        /\ db.version = PyInt(SCHEMA_VERSION)
        /\ file = db

C8_Witness ==
    /\ pc = "loaded" /\ doc = Garbage /\ ~raised
    /\ file = db /\ db.job_sites = Dict(EmptyMap)

---------------------------------------------------------------------------
(* Properties of the Jobsite page *)

\* the events that change the root in memory
MutatingOps ==
    {"add", "delete", "upload", "rm_photo", "toggle", "notes", "create"}

\* C1: every user action that mutates the root in memory (add item, delete
\* item, add photo reference, remove photo reference, toggle done, edit notes,
\* create site) is followed by save_db before the run ends: when the run of
\* such an event is over, storage holds the root as the run left it, which is
\* what the next run's load_db reads.
C1_MutationSavedBeforeRunEnds == ev.op \in MutatingOps => file = db

\* l without the items carrying id
WithoutId(l, id) == SelectSeq(l, LAMBDA it : it.id # id)

\* C9: when the delete control of a shown item is used, the owning list of
\* the root in memory is afterwards the stored list without exactly that
\* item: one shorter, every other item kept in its relative order.
C9_DeleteRemovesExactlyThatItem ==
    [][(ev'.op = "delete" /\ file.k = "dict")
          => db'.job_sites.v[session_state'.active_site][ev'.key]
               = List(WithoutId(
                     file.job_sites.v[session_state'.active_site][ev'.key].v,
                     ev'.id))]_vars

\* ids are handed out in increasing order, so a list in insertion order has
\* ascending ids
InsertionOrder(l) == \A i, j \in 1..Len(l) : i < j => l[i].id < l[j].id

\* C10: the presentation sort is never persisted: after any sequence of
\* renders and saves, each item list of each site in storage is in insertion
\* order.
C10_StoredOrderIsInsertionOrder ==
    \A n \in RecordsOf(file) : \A key \in ListKeys :
        AllItems(file.job_sites.v[n][key])
            => InsertionOrder(file.job_sites.v[n][key].v)

---------------------------------------------------------------------------
(* Further properties of the migration engine *)

\* C11: when a stored item list is non-empty and made of item-objects only,
\* migration returns it unchanged (same elements, order, ids, timestamps and
\* every other field), and an empty list comes back as an empty list.
C11_CurrentListUnchanged ==
    Migrated =>
        \A n \in RecordsOf(doc) : \A key \in ListKeys :
            /\ (AllItems(doc.job_sites.v[n][key])
                  /\ doc.job_sites.v[n][key].v # <<>>)
                 => db.job_sites.v[n][key] = doc.job_sites.v[n][key]
            /\ doc.job_sites.v[n][key] = List(<<>>)
                 => db.job_sites.v[n][key] = List(<<>>)

\* a list of two item-objects, stamped at an earlier time and not in id
\* order, went through a migration that read a later clock
C11_Witness ==
    /\ Migrated
    /\ \E n \in RecordsOf(doc) :
         /\ doc.job_sites.v[n].what_to_do = List(<<ItemB, ItemA>>)
         /\ db.job_sites.v[n].what_to_do = List(<<ItemB, ItemA>>)
         /\ db.job_sites.v[n].created_at = Iso(1)

\* the general bucket a stored site has before migration touches it: absent
\* section_photos, a section_photos that is no mapping, and an absent bucket
\* all start empty
PriorGeneral(site) ==
    IF site.section_photos.k = "dict" /\ site.section_photos.general.k = "list"
    THEN site.section_photos.general.v
    ELSE <<>>

\* where p first occurs in l
FirstAt(l, p) == CHOOSE i \in 1..Len(l) : l[i] = p /\ \A j \in 1..(i - 1) : l[j] # p

\* out is prior followed by the paths of photos that prior lacks, each once,
\* in the order of their first appearance in photos
IsLegacyUnion(out, prior, photos) ==
    /\ Len(out) = Len(prior) + Cardinality(Elems(photos) \ Elems(prior))
    /\ SubSeq(out, 1, Len(prior)) = prior
    /\ \A i \in (Len(prior) + 1)..Len(out) :
         /\ out[i] \in Elems(photos) \ Elems(prior)
         /\ \A j \in (Len(prior) + 1)..(i - 1) :
              /\ out[j] # out[i]
              /\ FirstAt(photos, out[j]) < FirstAt(photos, out[i])

\* C12: after migration of a site with non-empty legacy photos, its
\* section_photos.general is its prior content followed by each legacy path
\* not already present, in order of first appearance and without duplicates,
\* and the legacy photos list is unchanged.
C12_LegacyPhotoUnion ==
    Migrated =>
        \A n \in RecordsOf(doc) :
            (doc.job_sites.v[n].photos.k = "list"
               /\ doc.job_sites.v[n].photos.v # <<>>) =>
                /\ db.job_sites.v[n].section_photos.general.k = "list"
                /\ IsLegacyUnion(db.job_sites.v[n].section_photos.general.v,
                                 PriorGeneral(doc.job_sites.v[n]),
                                 doc.job_sites.v[n].photos.v)
                /\ db.job_sites.v[n].photos = doc.job_sites.v[n].photos

\* legacy photos ["a.png", "b.png"] met a general bucket ["b.png"], which is
\* now ["b.png", "a.png"]
C12_Witness ==
    /\ Migrated
    /\ \E n \in RecordsOf(doc) :
         /\ doc.job_sites.v[n].photos = List(<<"a.png", "b.png">>)
         /\ PriorGeneral(doc.job_sites.v[n]) = <<"b.png">>
         /\ db.job_sites.v[n].section_photos.general
              = List(<<"b.png", "a.png">>)

\* out holds one fresh item per string of `strings`, in order, with the
\* trimmed string as text
ItemsOfStrings(out, strings) ==
    /\ Len(out) = Len(strings)
    /\ \A i \in 1..Len(out) :
         /\ out[i].k = "item"
         /\ out[i].text = strip(strings[i].v)
         /\ out[i].done = FALSE
         /\ out[i].priority = "Medium"
         /\ out[i].link = <<>>
         /\ out[i].id >= 1

\* C13: a stored flat list (one that does not start with an item-object)
\* becomes, in the original order, exactly one item per non-blank string, with
\* the trimmed string as text, done false, priority Medium, empty link and a
\* non-empty id; blank strings and entries that are no strings are skipped.
C13_StringsBecomeItems ==
    Migrated =>
        \A n \in RecordsOf(doc) : \A key \in ListKeys :
            (doc.job_sites.v[n][key].k = "list"
               /\ doc.job_sites.v[n][key].v # <<>>
               /\ doc.job_sites.v[n][key].v[1].k # "item") =>
                /\ db.job_sites.v[n][key].k = "list"
                /\ ItemsOfStrings(db.job_sites.v[n][key].v,
                                  SelectSeq(doc.job_sites.v[n][key].v, IsStrItem))

\* a padded string and a plain one became two items in the stored order, the
\* first with its text trimmed
C13_Witness ==
    /\ Migrated
    /\ \E n \in RecordsOf(doc) :
         /\ doc.job_sites.v[n].what_to_do
              = List(<<Str(<<" ", "b", " ">>), Str(<<"a">>)>>)
         /\ TextsOf(db.job_sites.v[n].what_to_do.v) = <<(<<"b">>), (<<"a">>)>>

---------------------------------------------------------------------------
(* SpecSearch: site_search_filter, and the page's choice of show_items, on  *)
(* a site of current shape and a typed query                                *)

SearchItem(id, text, link) ==
    [k |-> "item", id |-> id, text |-> text, done |-> FALSE,
     priority |-> "Medium", link |-> link, created_at |-> Iso(0)]

\* one item that matches "ab" in its text, one in its link, one in neither
SearchItems ==
    {SearchItem(201, <<"A", "b">>, <<>>),
     SearchItem(202, <<"c">>, <<"x", "a", "B">>),
     SearchItem(203, <<"b", "a">>, <<>>)}

SearchSites ==
    {Site(Iso(0), Str(n), List(<<>>), List(l1), List(<<>>), List(<<>>), l4,
          EmptySections) :
        n \in {<<>>, <<"x", "A", "B">>},
        l1 \in SeqsUpTo(SearchItems, MaxLen),
        l4 \in {List(<<>>),
                List(<<SearchItem(202, <<"c">>, <<"x", "a", "B">>),
                       SearchItem(201, <<"A", "b">>, <<>>)>>)}}

\* what the search box may hold
SearchQueries ==
    {<<>>, <<" ">>, <<"a", "b">>, <<" ", "a", "B", " ">>, <<"B">>, <<"z">>}

InitSearch ==
    /\ \E site \in SearchSites :
         /\ db = Root(PyInt(SCHEMA_VERSION), Iso(0), APP_VERSION,
                      Dict(OneSite(site)))
         /\ file = db
    /\ \E q \in SearchQueries :
         session_state = [active_site |-> <<"s">>, search_q |-> q]
    /\ raised = FALSE
    /\ pc = "typed"
    /\ doc = NoFile
    /\ db1 = NoDb
    /\ ev = NoEvent
    /\ last_hits = NoHits
    /\ view = NoView

\* lines 666-712: site_search_filter on the active site, and the show_items
\* of each of the four tables
FilterSite ==
    /\ pc = "typed"
    /\ \E site \in {db.job_sites.v[session_state.active_site]} :
         /\ last_hits' = site_search_filter(site, session_state.search_q)
         /\ view' = [key \in ListKeys |->
                       show_items([site |-> site], key,
                                  search_hits(site, session_state.search_q))]
    /\ pc' = "filtered"
    /\ UNCHANGED <<file, db, raised, doc, db1, session_state, ev>>

NextSearch == FilterSite

SpecSearch == InitSearch /\ [][NextSearch]_vars

\* hay contains needle, letter case aside
ContainsAnyCase(hay, needle) ==
    \E i \in 0..(Len(hay) - Len(needle)) :
        \A j \in 1..Len(needle) : LowerChar(hay[i + j]) = LowerChar(needle[j])

\* the item's text or link contains the trimmed query, letter case aside
Matches(it, query) ==
    \/ ContainsAnyCase(it.text, strip(query))
    \/ ContainsAnyCase(it.link, strip(query))

\* C14: with an empty or whitespace-only query site_search_filter returns the
\* "no filter" result and the page shows every stored item; with any other
\* query it returns, for each of the four lists, exactly the sub-list, in
\* stored order, of the items whose text or link contains the trimmed query
\* case-insensitively, and a flag that is true iff the notes contain it; the
\* page then shows those sub-lists, an empty one as zero items.
C14_SearchFilter ==
    pc = "filtered" =>
        IF strip(session_state.search_q) = <<>>
        THEN /\ last_hits = NoHits
             /\ \A key \in ListKeys :
                  view[key] = db.job_sites.v[<<"s">>][key].v
        ELSE /\ last_hits # NoHits
             /\ \A key \in ListKeys :
                  /\ last_hits[key]
                       = SelectSeq(db.job_sites.v[<<"s">>][key].v,
                                   LAMBDA it : Matches(it, session_state.search_q))
                  /\ view[key] = last_hits[key]
             /\ last_hits.notes_hit
                  = ContainsAnyCase(db.job_sites.v[<<"s">>].notes.v,
                                    strip(session_state.search_q))

\* a padded, mixed-case query kept the item that matches by its link and the
\* one that matches by its text, and left the third out
C14_Witness ==
    /\ pc = "filtered"
    /\ session_state.search_q = <<" ", "a", "B", " ">>
    /\ Len(db.job_sites.v[<<"s">>].what_to_do.v) = 2
    /\ Len(view.what_to_do) = 1
    /\ view.what_to_do[1].id = 202
    /\ Len(view.to_buy) = 2

---------------------------------------------------------------------------
(* Further properties of the Jobsite page *)

\* C15: ensure_site is idempotent.  In a run of "Create / Open Site" with a
\* name that cleans to a non-empty one, the root ensure_site leaves has, when
\* the name was already a site, exactly the sites storage held, each with its
\* created_at, lists, notes and photos; and when the name is new, one more
\* Site Record under that name and every other site as it was.
C15_EnsureSiteIdempotent ==
    [][(ev'.op = "create" /\ clean_name(ev'.text) # <<>>) =>
          IF clean_name(ev'.text) \in DOMAIN file.job_sites.v
          THEN db'.job_sites = file.job_sites
          ELSE /\ DOMAIN db'.job_sites.v
                    = DOMAIN file.job_sites.v \cup {clean_name(ev'.text)}
               /\ db'.job_sites.v[clean_name(ev'.text)].k = "dict"
               /\ \A n \in DOMAIN file.job_sites.v :
                     db'.job_sites.v[n] = file.job_sites.v[n]]_vars

\* "Create / Open Site" was pressed for a site that already carried notes,
\* next to another site that has items
C15_Witness ==
    /\ ev.op = "create"
    /\ clean_name(ev.text) = <<"t", " ", "u">>
    /\ db.k = "dict"
    /\ DOMAIN db.job_sites.v = {<<"s">>, <<"t", " ", "u">>}
    /\ db.job_sites.v[<<"t", " ", "u">>].notes = Str(<<"n">>)

\* the event is input the page rejects: a site name that cleans to nothing,
\* or an item text that trims to nothing
Rejected(e) ==
    \/ e.op = "create" /\ clean_name(e.text) = <<>>
    \/ e.op = "add" /\ strip(e.text) = <<>>

\* no site of the root has an empty name and no item an empty text
NoEmptyNameOrText(d) ==
    \A n \in SitesOf(d) :
        /\ n # <<>>
        /\ \A key \in ListKeys : \A it \in Elems(d.job_sites.v[n][key].v) :
              it.text # <<>>

\* C16: invalid input is rejected before any mutation.  A run of "Create /
\* Open Site" with a name that cleans to nothing, or of "Add" with a text
\* that trims to nothing, leaves the root as storage held it: no Site Record
\* and no item is added and nothing else changes; and after any sequence of
\* user actions no site has an empty name and no item an empty text.
C16_InvalidInputChangesNothing ==
    [][/\ Rejected(ev') => db' = file
       /\ NoEmptyNameOrText(db')]_vars

\* a and b hold the same items, in whatever order
SameItems(a, b) ==
    /\ Len(a) = Len(b)
    /\ \A x \in Elems(a) \cup Elems(b) :
          Cardinality({i \in 1..Len(a) : a[i] = x})
            = Cardinality({i \in 1..Len(b) : b[i] = x})

\* the part of C16 that does not depend on the order of a stored list: a run
\* of rejected input leaves the sites, and in each site everything but the
\* order of its item lists, as storage held them, and no name or text is empty
C16_InvalidInputAddsNothing ==
    [][/\ Rejected(ev') =>
            /\ DOMAIN db'.job_sites.v = DOMAIN file.job_sites.v
            /\ \A n \in DOMAIN file.job_sites.v :
                 /\ \A key \in ListKeys :
                       SameItems(db'.job_sites.v[n][key].v,
                                 file.job_sites.v[n][key].v)
                 /\ [db'.job_sites.v[n] EXCEPT
                        !.what_to_do = file.job_sites.v[n].what_to_do,
                        !.materials_need = file.job_sites.v[n].materials_need,
                        !.materials_have = file.job_sites.v[n].materials_have,
                        !.to_buy = file.job_sites.v[n].to_buy]
                      = file.job_sites.v[n]
       /\ NoEmptyNameOrText(db')]_vars

\* C17: while a non-empty search query is active, using an item's delete
\* control removes that item from the site's stored list in the root, not
\* merely from the filtered view.
C17_DeleteUnderSearchRemovesStored ==
    [][(ev'.op = "delete" /\ strip(session_state'.search_q) # <<>>) =>
          ~HasId(db'.job_sites.v[session_state'.active_site][ev'.key].v,
                 ev'.id)]_vars

====
